---- MODULE Spec2Model ----
(***************************************************************************)
(* Model of the MCP client (src/python/client/client.py): the MCPClient    *)
(* object, its connect_to_server / process_query / call_tool_directly /    *)
(* cleanup operations, the chat_loop REPL and main.                        *)
(*                                                                         *)
(* The LLM provider (anthropic.messages.create) and the tool host reached  *)
(* through mcp.ClientSession are the environment: each of their calls      *)
(* either returns one of a bounded set of values or raises.                *)
(***************************************************************************)
EXTENDS Integers, Sequences, FiniteSets, TLC

(* ------------------------------ bounds --------------------------------- *)
\* content blocks the provider may emit over one process_query
MaxBlocks == 3
\* provider calls the environment lets one process_query make
\* longest text given to count_characters, the scenario's text apart
MaxWordLen == 3
MaxCalls == 2

(* --------------------------- value domains ----------------------------- *)
None == "None"
NL == "\n"
TextVals == {"a", "b"}
Queries == {"q1", "q2"}
ToolUseIds == {"id1", "id2"}
\* names a provider may put in a tool_use block; "t3" is never registered
RequestNames == {"t1", "t3"}
ToolArgs == {"args"}
\* tool names a tool host may answer list_tools with (empty: no tools, or no
\* answer object)
ListToolsAnswers == {<<>>, <<"t2", "t1">>}
\* server_path values, as sequences of characters: one per branch of the
\* suffix test, and two that match none
ServerPaths ==
    {<<"s", ".", "p", "y">>, <<"s", ".", "j", "s">>, <<"s", ".", "j", "a", "r">>,
     <<"s", ".", "t", "x", "t">>, <<"p", "y">>}
MainSystemPrompt == "sys"
\* lines typed at the prompt, as sequences of characters
InputLines ==
    {<<"q", "u", "i", "t">>, <<" ", "E", "x", "i", "T">>, <<" ", "h", "i", " ">>,
     <<"Q", "2">>}

VARIABLES
    \* ---- MCPClient fields
    session,          \* self.session: None or the ClientSession
    exit_stack,       \* self.exit_stack: contexts entered, oldest first
    available_tools,  \* self.available_tools: sequence of descriptors
    \* ---- environment
    open,             \* transport resources currently held open
    established,      \* the ClientSession completed handshake and tool listing
    listing,          \* the tool names the last answered list_tools call gave
    \* ---- the operation in progress or last finished
    op,               \* its name
    pc,               \* its position
    err,              \* what it raised, None if nothing
    result,           \* what it returned
    started_active,   \* whether an active Session existed when it started
    outstanding,      \* its external calls sent and not yet completed
    \* ---- call_tool_directly arguments
    direct,           \* <<tool_name, args>>, empty when it is not running
    \* ---- connect_to_server argument
    server_path,      \* empty when it is not the operation
    \* ---- process_query locals
    query, system_prompt, messages, tools_for_claude, final_text, tool_uses,
    tu_idx,
    \* ---- observation of the operation's external calls
    provider_log,     \* params of every anthropic.messages.create call
    responses,        \* content of every provider response received
    transport,        \* everything sent over the transport
    tool_replies,     \* what every session.call_tool that returned gave back
    \* ---- main
    mainpc,           \* position of main; "api" when the client is used as a library
    main_exc,         \* the exception leaving main's try block, None if none
    \* ---- history of the client object
    earlier,          \* a turn of chat_loop before the current one made tool
                      \* calls and failed
    \* ---- the tool host's count_characters
    word,             \* its argument, a sequence of characters
    counts            \* the dictionary it returned, NoCounts before it returns

client_vars == <<session, exit_stack, available_tools>>
env_vars == <<open, established, listing>>
op_vars == <<op, pc, err, result, started_active, outstanding, direct, server_path>>
query_vars ==
    <<query, system_prompt, messages, tools_for_claude, final_text, tool_uses, tu_idx>>
log_vars == <<provider_log, responses, transport, tool_replies>>
main_vars == <<mainpc, main_exc>>
host_vars == <<word, counts>>
vars == <<client_vars, env_vars, op_vars, query_vars, log_vars, main_vars,
          earlier, host_vars>>

(* ------------------------------ helpers -------------------------------- *)
Range(s) == {s[i] : i \in 1..Len(s)}

\* a tool descriptor as list_tools returns it
Descriptor(n) ==
    [name |-> n, description |-> "desc:" \o n, inputSchema |-> "schema:" \o n]

\* the two contexts connect_to_server enters: the spawned tool host with its
\* stdio streams, and the client session over them
StdioRes == "stdio_client"
SessionRes == "ClientSession"

\* an active Session: the handle is set, its transport is open, and its
\* handshake and tool listing completed
Active ==
    /\ session # None
    /\ SessionRes \in open
    /\ StdioRes \in open
    /\ established

TextBlock(t) == [type |-> "text", text |-> t]
ToolUseBlock(i, n, a) == [type |-> "tool_use", id |-> i, name |-> n, input |-> a]
Blocks ==
    {TextBlock(t) : t \in TextVals}
        \cup {ToolUseBlock(i, n, a) : i \in ToolUseIds, n \in RequestNames, a \in ToolArgs}

RECURSIVE SeqsUpTo(_, _)
SeqsUpTo(S, n) ==
    IF n = 0 THEN {<<>>}
    ELSE LET shorter == SeqsUpTo(S, n - 1)
         IN  shorter \cup {Append(s, x) : s \in {t \in shorter : Len(t) = n - 1}, x \in S}

RECURSIVE SelectBlocks(_, _)
SelectBlocks(content, ty) ==
    IF content = <<>> THEN <<>>
    ELSE IF Head(content).type = ty
         THEN <<Head(content)>> \o SelectBlocks(Tail(content), ty)
         ELSE SelectBlocks(Tail(content), ty)

\* ids are unique within one response
UniqueIds(content) ==
    LET tus == SelectBlocks(content, "tool_use")
    IN  \A i, j \in 1..Len(tus) : tus[i].id = tus[j].id => i = j

\* the provider responses with at most n blocks
Responses(n) == {c \in SeqsUpTo(Blocks, n) : UniqueIds(c)}

RECURSIVE SumLen(_)
SumLen(ss) == IF ss = <<>> THEN 0 ELSE Len(Head(ss)) + SumLen(Tail(ss))

(* ------------------------ state after construction --------------------- *)
\* MCPClient.__init__, and no operation started yet
ClientInit ==
    /\ session = None
    /\ exit_stack = <<>>
    /\ available_tools = <<>>
    /\ open = {}
    /\ established = FALSE
    /\ listing = <<>>
    /\ op = None
    /\ pc = "idle"
    /\ err = None
    /\ result = None
    /\ started_active = FALSE
    /\ outstanding = <<>>
    /\ direct = <<>>
    /\ server_path = <<>>
    /\ query = None
    /\ system_prompt = None
    /\ messages = <<>>
    /\ tools_for_claude = <<>>
    /\ final_text = <<>>
    /\ tool_uses = <<>>
    /\ tu_idx = 0
    /\ provider_log = <<>>
    /\ responses = <<>>
    /\ transport = <<>>
    /\ tool_replies = <<>>
    /\ earlier = FALSE

\* count_characters has not returned
NoCounts == [returned |-> FALSE]

\* the tool host is not being looked at
HostIdle == word = <<>> /\ counts = NoCounts

\* no operation is in progress: the caller may start one
NoOpRunning == pc \in {"idle", "returned", "raised"}

\* the locals of process_query, when another operation runs
NoQueryLocals ==
    /\ query' = None
    /\ system_prompt' = None
    /\ messages' = <<>>
    /\ tools_for_claude' = <<>>
    /\ final_text' = <<>>
    /\ tool_uses' = <<>>
    /\ tu_idx' = 0

(* --------------------------- connect_to_server ------------------------- *)
EndsWith(path, suffix) ==
    /\ Len(path) >= Len(suffix)
    /\ SubSeq(path, Len(path) - Len(suffix) + 1, Len(path)) = suffix

DotPy == <<".", "p", "y">>
DotJs == <<".", "j", "s">>
DotJar == <<".", "j", "a", "r">>

\* variant: a path of any other suffix is run with python
LaunchCommand_DefaultPython(path) ==
    IF EndsWith(path, DotJs) THEN [command |-> "node", args |-> <<path>>]
    ELSE IF EndsWith(path, DotJar) THEN [command |-> "java", args |-> <<<<"-jar">>, path>>]
    ELSE [command |-> "python", args |-> <<path>>]

\* the launch command for a path; command None when the suffix is not
\* supported
LaunchCommand(path) ==
    IF EndsWith(path, DotPy) THEN [command |-> "python", args |-> <<path>>]
    ELSE IF EndsWith(path, DotJs) THEN [command |-> "node", args |-> <<path>>]
    ELSE IF EndsWith(path, DotJar) THEN [command |-> "java", args |-> <<<<"-jar">>, path>>]
    ELSE [command |-> None, args |-> <<>>]

\* resp.tools if resp and resp.tools else []
ToolsOf(answer) == [i \in 1..Len(answer) |-> Descriptor(answer[i])]

ConnectOutcomes == {"launch_fail", "session_fail", "handshake_fail", "list_fail", "ok"}

\* connect_to_server(server_path); stage is how far the transport lets it
\* get, answer what list_tools returns
connect_to_server(path, stage, answer) ==
    LET cmd == LaunchCommand(path)
        launch == [op |-> "launch", command |-> cmd]
        sent == IF stage = "launch_fail" \/ stage = "session_fail" THEN <<launch>>
                ELSE IF stage = "handshake_fail" THEN <<launch, [op |-> "initialize"]>>
                ELSE <<launch, [op |-> "initialize"], [op |-> "list_tools"]>>
    IN
    /\ op' = "connect_to_server"
    /\ direct' = <<>>
    /\ server_path' = path
    /\ started_active' = Active
    /\ result' = None
    /\ provider_log' = <<>>
    /\ responses' = <<>>
    /\ tool_replies' = <<>>
    /\ outstanding' = <<>>
    /\ NoQueryLocals
    /\ IF cmd.command = None
       THEN /\ pc' = "raised"
            /\ err' = "UnsupportedTarget"
            /\ transport' = <<>>
            /\ UNCHANGED <<client_vars, open, established, listing>>
       ELSE /\ transport' = sent
            /\ pc' = IF stage = "ok" THEN "returned" ELSE "raised"
            /\ err' = IF stage = "ok" THEN None ELSE "TransportError"
            \* enter_async_context(stdio_client(...))
            /\ exit_stack' =
                 IF stage = "launch_fail" THEN exit_stack
                 ELSE IF stage = "session_fail" THEN Append(exit_stack, StdioRes)
                 ELSE exit_stack \o <<StdioRes, SessionRes>>
            /\ open' =
                 IF stage = "launch_fail" THEN open
                 ELSE IF stage = "session_fail" THEN open \cup {StdioRes}
                 ELSE open \cup {StdioRes, SessionRes}
            \* self.session = await enter_async_context(ClientSession(...))
            /\ session' =
                 IF stage \in {"launch_fail", "session_fail"} THEN session
                 ELSE "ClientSession"
            \* await self.session.initialize(); await self.session.list_tools()
            /\ established' =
                 IF stage \in {"launch_fail", "session_fail"} THEN established
                 ELSE stage = "ok"
            \* self.available_tools = resp.tools if resp and resp.tools else []
            /\ available_tools' = IF stage = "ok" THEN ToolsOf(answer) ELSE available_tools
            /\ listing' = IF stage = "ok" THEN answer ELSE listing

(* -------------------------------- cleanup ------------------------------ *)
\* variant: only the context entered last is closed
cleanup_LastOnly ==
    /\ op' = "cleanup"
    /\ direct' = <<>>
    /\ server_path' = <<>>
    /\ started_active' = Active
    /\ pc' = "returned"
    /\ err' = None
    /\ result' = None
    /\ open' = IF exit_stack = <<>> THEN open ELSE open \ {exit_stack[Len(exit_stack)]}
    /\ exit_stack' = <<>>
    /\ provider_log' = <<>>
    /\ responses' = <<>>
    /\ tool_replies' = <<>>
    /\ outstanding' = <<>>
    /\ transport' = <<>>
    /\ NoQueryLocals
    /\ UNCHANGED <<session, available_tools, established, listing>>

\* cleanup(): exit_stack.aclose() closes every context entered
cleanup ==
    /\ op' = "cleanup"
    /\ direct' = <<>>
    /\ server_path' = <<>>
    /\ started_active' = Active
    /\ pc' = "returned"
    /\ err' = None
    /\ result' = None
    /\ open' = open \ Range(exit_stack)
    /\ exit_stack' = <<>>
    /\ provider_log' = <<>>
    /\ responses' = <<>>
    /\ tool_replies' = <<>>
    /\ outstanding' = <<>>
    /\ transport' = <<>>
    /\ NoQueryLocals
    /\ UNCHANGED <<session, available_tools, established, listing>>

(* --------------------------- session.call_tool ------------------------- *)
\* what one session.call_tool may do: return a result, return nothing, raise.
\* A session whose transport is closed cannot return anything.
ToolOutcomes ==
    IF SessionRes \in open THEN {"content", "none", "raise"} ELSE {"raise"}

\* the content a tool host returns for a call
ToolContent(name, args) == "out:" \o name \o ":" \o args

CallToolMsg(name, args) == [op |-> "call_tool", name |-> name, args |-> args]

(* --------------------------- call_tool_directly ------------------------ *)
\* variant: the name is looked up among the descriptions
ToolNamesOf_Descriptions(tools) == {tools[i].description : i \in 1..Len(tools)}

\* [t.name for t in self.available_tools]
ToolNamesOf(tools) == {tools[i].name : i \in 1..Len(tools)}

call_tool_directly(name, args, outcome) ==
    /\ op' = "call_tool_directly"
    /\ direct' = <<name, args>>
    /\ server_path' = <<>>
    /\ started_active' = Active
    /\ provider_log' = <<>>
    /\ responses' = <<>>
    /\ tool_replies' = <<>>
    /\ outstanding' = <<>>
    /\ NoQueryLocals
    /\ UNCHANGED <<client_vars, env_vars>>
    /\ IF session = None
       THEN /\ pc' = "raised"
            /\ err' = "NotConnected"
            /\ result' = None
            /\ transport' = <<>>
       ELSE IF name \notin ToolNamesOf(available_tools)
       THEN /\ pc' = "raised"
            /\ err' = "UnknownTool"
            /\ result' = None
            /\ transport' = <<>>
       ELSE /\ transport' = <<CallToolMsg(name, args)>>
            /\ pc' = IF outcome = "raise" THEN "raised" ELSE "returned"
            /\ err' = IF outcome = "raise" THEN "ToolExecutionFailed" ELSE None
            \* return result.content if result else None
            /\ result' = IF outcome = "content" THEN ToolContent(name, args) ELSE None

(* ------------------------------ process_query -------------------------- *)
\* variant: the text of a response that asks for tools is dropped
TextsOf_DropWithTools(content) ==
    IF SelectBlocks(content, "tool_use") # <<>> THEN <<>>
    ELSE LET tb == SelectBlocks(content, "text")
         IN  [i \in 1..Len(tb) |-> tb[i].text]

\* texts = [c.text for c in response.content if c.type == "text"]
RECURSIVE TextsOf(_)
TextsOf(content) ==
    IF content = <<>> THEN <<>>
    ELSE IF Head(content).type = "text"
         THEN <<Head(content).text>> \o TextsOf(Tail(content))
         ELSE TextsOf(Tail(content))

\* variant: only the first tool_use of a response is kept
ToolUsesOf_FirstOnly(content) ==
    LET tus == SelectBlocks(content, "tool_use")
    IN  IF tus = <<>> THEN <<>> ELSE <<Head(tus)>>

\* tool_uses = [c for c in response.content if c.type == "tool_use"]
ToolUsesOf(content) == SelectBlocks(content, "tool_use")

\* variant: the texts are joined by spaces
RECURSIVE Join_Spaces(_)
Join_Spaces(texts) ==
    IF texts = <<>> THEN ""
    ELSE IF Len(texts) = 1 THEN Head(texts)
    ELSE Head(texts) \o " " \o Join_Spaces(Tail(texts))

\* "\n".join(final_text)
RECURSIVE Join(_)
Join(texts) ==
    IF texts = <<>> THEN ""
    ELSE IF Len(texts) = 1 THEN Head(texts)
    ELSE Head(texts) \o NL \o Join(Tail(texts))

\* variant: the descriptors are offered last first
ToolsForClaude_Reversed(tools) ==
    [i \in 1..Len(tools) |->
        [name |-> tools[Len(tools) + 1 - i].name,
         description |-> tools[Len(tools) + 1 - i].description,
         input_schema |-> tools[Len(tools) + 1 - i].inputSchema]]

\* tools_for_claude
ToolsForClaude(tools) ==
    [i \in 1..Len(tools) |->
        [name |-> tools[i].name,
         description |-> tools[i].description,
         input_schema |-> tools[i].inputSchema]]

UserMessage(q) == [role |-> "user", content |-> q]

\* variant: the echo carries a text block next to the request
AssistantEcho_WithText(tu) ==
    [role |-> "assistant", content |-> <<TextBlock("a"), tu>>]

\* variant: the echo is appended with the user role
AssistantEcho_UserRole(tu) == [role |-> "user", content |-> <<tu>>]

AssistantEcho(tu) == [role |-> "assistant", content |-> <<tu>>]

\* variant: the result is correlated by the tool's name instead of the
\* request's id
ToolResultMessage_ByName(tu, tool_output) ==
    [role |-> "user",
     content |-> <<[type |-> "tool_result", tool_use_id |-> tu.name, content |-> tool_output]>>]

ToolResultMessage(tu, tool_output) ==
    [role |-> "user",
     content |-> <<[type |-> "tool_result", tool_use_id |-> tu.id, content |-> tool_output]>>]

\* what the turn of chat_loop that just ended adds to the record of the
\* turns before the one starting
EarlierNow ==
    \/ earlier
    \/ mainpc = "input" /\ op = "process_query" /\ tool_replies # <<>> /\ pc = "raised"

\* variant: the history is an attribute of the client and is carried over
process_query_KeepHistory(q, sp) ==
    /\ op' = "process_query"
    /\ earlier' = EarlierNow
    /\ direct' = <<>>
    /\ server_path' = <<>>
    /\ started_active' = Active
    /\ result' = None
    /\ provider_log' = <<>>
    /\ responses' = <<>>
    /\ tool_replies' = <<>>
    /\ outstanding' = <<>>
    /\ transport' = <<>>
    /\ UNCHANGED <<client_vars, env_vars>>
    /\ IF session = None
       THEN /\ pc' = "raised"
            /\ err' = "NotConnected"
            /\ NoQueryLocals
       ELSE /\ pc' = "provider"
            /\ err' = None
            /\ query' = q
            /\ system_prompt' = sp
            /\ messages' = messages \o <<UserMessage(q)>>
            /\ tools_for_claude' = ToolsForClaude(available_tools)
            /\ final_text' = <<>>
            /\ tool_uses' = <<>>
            /\ tu_idx' = 0

\* the entry of process_query, up to the first provider call
process_query(q, sp) ==
    /\ op' = "process_query"
    /\ earlier' = EarlierNow
    /\ direct' = <<>>
    /\ server_path' = <<>>
    /\ started_active' = Active
    /\ result' = None
    /\ provider_log' = <<>>
    /\ responses' = <<>>
    /\ tool_replies' = <<>>
    /\ outstanding' = <<>>
    /\ transport' = <<>>
    /\ UNCHANGED <<client_vars, env_vars>>
    /\ IF session = None
       THEN /\ pc' = "raised"
            /\ err' = "NotConnected"
            /\ NoQueryLocals
       ELSE /\ pc' = "provider"
            /\ err' = None
            /\ query' = q
            /\ system_prompt' = sp
            /\ messages' = <<UserMessage(q)>>
            /\ tools_for_claude' = ToolsForClaude(available_tools)
            /\ final_text' = <<>>
            /\ tool_uses' = <<>>
            /\ tu_idx' = 0

\* params of the provider call
ProviderParams ==
    [messages |-> messages, tools |-> tools_for_claude, system |-> system_prompt]

ProviderCallMsg == [op |-> "messages.create"]

\* the responses the environment may still give: the block budget of the
\* query is not exceeded, and the last call allowed gets no tool_use
ProviderAnswers ==
    {c \in Responses(MaxBlocks - SumLen(responses)) :
        Len(provider_log) >= MaxCalls => ToolUsesOf(c) = <<>>}

\* the provider call is issued
ProviderSend ==
    /\ pc = "provider"
    /\ provider_log' = Append(provider_log, ProviderParams)
    /\ outstanding' = Append(outstanding, ProviderCallMsg)
    /\ pc' = "awaiting_provider"
    /\ UNCHANGED <<client_vars, env_vars, op, err, result, started_active, direct,
                   server_path, query_vars, responses, transport, tool_replies,
                   main_vars, earlier, host_vars>>

\* the provider call raises
ProviderRaises ==
    /\ pc = "awaiting_provider"
    /\ outstanding' = Tail(outstanding)
    /\ pc' = "raised"
    /\ err' = "ProviderError"
    /\ UNCHANGED <<client_vars, env_vars, op, result, started_active, direct,
                   server_path, query_vars, log_vars, main_vars, earlier, host_vars>>

\* variant: the loop is left after the first response whatever it holds
ProviderResponds_OneRound(content) ==
    /\ pc = "awaiting_provider"
    /\ outstanding' = Tail(outstanding)
    /\ responses' = Append(responses, content)
    /\ final_text' = final_text \o TextsOf(content)
    /\ tool_uses' = ToolUsesOf(content)
    /\ pc' = "returned"
    /\ result' = Join(final_text')
    /\ tu_idx' = 0
    /\ UNCHANGED <<client_vars, env_vars, op, err, started_active, direct,
                   server_path, query, system_prompt, messages, tools_for_claude,
                   provider_log, transport, tool_replies, main_vars, earlier, host_vars>>

\* the provider call answers, and the answer is handled up to the first tool
\* invocation or the return
ProviderResponds(content) ==
    /\ pc = "awaiting_provider"
    /\ outstanding' = Tail(outstanding)
    /\ responses' = Append(responses, content)
    /\ final_text' = final_text \o TextsOf(content)
    /\ tool_uses' = ToolUsesOf(content)
    /\ IF ToolUsesOf(content) = <<>>
       THEN /\ pc' = "returned"
            /\ result' = Join(final_text')
            /\ tu_idx' = 0
       ELSE /\ pc' = "tools"
            /\ result' = result
            /\ tu_idx' = 1
    /\ UNCHANGED <<client_vars, env_vars, op, err, started_active, direct,
                   server_path, query, system_prompt, messages, tools_for_claude,
                   provider_log, transport, tool_replies, main_vars, earlier, host_vars>>

ProviderReply ==
    \/ ProviderRaises
    \/ \E content \in ProviderAnswers : ProviderResponds(content)

\* variant: the calls of all the tool_use blocks left are sent at once
ToolSend_Gather ==
    LET left == SubSeq(tool_uses, tu_idx, Len(tool_uses))
        msgs == [i \in 1..Len(left) |-> CallToolMsg(left[i].name, left[i].input)]
    IN
    /\ pc = "tools"
    /\ transport' = transport \o msgs
    /\ outstanding' = outstanding \o msgs
    /\ pc' = "awaiting_tool"
    /\ UNCHANGED <<client_vars, env_vars, op, err, result, started_active, direct,
                   server_path, query_vars, provider_log, responses, tool_replies,
                   main_vars, earlier, host_vars>>

\* session.call_tool(tool_name, tool_args) is sent for the current tool_use
ToolSend ==
    LET tu == tool_uses[tu_idx] IN
    /\ pc = "tools"
    /\ transport' = Append(transport, CallToolMsg(tu.name, tu.input))
    /\ outstanding' = Append(outstanding, CallToolMsg(tu.name, tu.input))
    /\ pc' = "awaiting_tool"
    /\ UNCHANGED <<client_vars, env_vars, op, err, result, started_active, direct,
                   server_path, query_vars, provider_log, responses, tool_replies,
                   main_vars, earlier, host_vars>>

\* what session.call_tool gives back when it does not raise
ToolReplyOf(outcome, tu) ==
    IF outcome = "content" THEN ToolContent(tu.name, tu.input) ELSE None

\* variant: no fallback, the missing result itself is the output
ToolOutput_NoFallback(reply) == reply

\* tool_output = result.content if result else "No result"
ToolOutput(reply) == IF reply = None THEN "No result" ELSE reply

\* variant: the exchange is put in front of the history
AppendExchange_Prepend(h, tu, tool_output) ==
    <<AssistantEcho(tu), ToolResultMessage(tu, tool_output)>> \o h

\* the two messages.append calls
AppendExchange(h, tu, tool_output) ==
    h \o <<AssistantEcho(tu), ToolResultMessage(tu, tool_output)>>

\* variant: a failing invocation is recorded and the loop goes on
ToolInvoke_ContinueOnError(outcome) ==
    LET tu == tool_uses[tu_idx]
        reply == ToolReplyOf(outcome, tu)
    IN
    /\ pc = "awaiting_tool"
    /\ outstanding' = Tail(outstanding)
    /\ tool_replies' = Append(tool_replies, reply)
    /\ messages' = AppendExchange(messages, tu, ToolOutput(reply))
    /\ err' = IF outcome = "raise" THEN "ToolExecutionFailed" ELSE err
    /\ IF tu_idx < Len(tool_uses)
       THEN pc' = "tools" /\ tu_idx' = tu_idx + 1
       ELSE pc' = "provider" /\ tu_idx' = 0
    /\ UNCHANGED <<client_vars, env_vars, op, result, started_active, direct,
                   server_path, query, system_prompt, tools_for_claude, final_text,
                   tool_uses, provider_log, responses, transport, main_vars, earlier, host_vars>>

\* the awaited call_tool completes: the rest of one pass of the for loop
\* over tool_uses
ToolInvoke(outcome) ==
    LET tu == tool_uses[tu_idx]
        reply == ToolReplyOf(outcome, tu)
    IN
    /\ pc = "awaiting_tool"
    /\ outstanding' = Tail(outstanding)
    /\ IF outcome = "raise"
       THEN /\ pc' = "raised"
            /\ err' = "ToolExecutionFailed"
            /\ UNCHANGED <<messages, tu_idx, tool_replies>>
       ELSE /\ tool_replies' = Append(tool_replies, reply)
            /\ messages' = AppendExchange(messages, tu, ToolOutput(reply))
            /\ err' = err
            /\ IF tu_idx < Len(tool_uses)
               THEN pc' = "tools" /\ tu_idx' = tu_idx + 1
               ELSE pc' = "provider" /\ tu_idx' = 0
    /\ UNCHANGED <<client_vars, env_vars, op, result, started_active, direct,
                   server_path, query, system_prompt, tools_for_claude, final_text,
                   tool_uses, provider_log, responses, transport, main_vars, earlier, host_vars>>

ToolReply == \E outcome \in ToolOutcomes : ToolInvoke(outcome)

(* ------------------- the client driven through its API ----------------- *)
ApiConnect ==
    /\ mainpc = "api"
    /\ NoOpRunning
    /\ exit_stack = <<>>
    /\ \E path \in ServerPaths, stage \in ConnectOutcomes, answer \in ListToolsAnswers :
          connect_to_server(path, stage, answer)
    /\ UNCHANGED <<main_vars, earlier, host_vars>>

ApiProcessQuery ==
    /\ mainpc = "api"
    /\ NoOpRunning
    /\ \E q \in Queries : process_query(q, None)
    /\ UNCHANGED <<main_vars, host_vars>>

ApiCallToolDirectly ==
    /\ mainpc = "api"
    /\ NoOpRunning
    /\ \E name \in RequestNames, args \in ToolArgs, outcome \in ToolOutcomes :
          call_tool_directly(name, args, outcome)
    /\ UNCHANGED <<main_vars, earlier, host_vars>>

ApiCleanup ==
    /\ mainpc = "api"
    /\ NoOpRunning
    /\ cleanup
    /\ UNCHANGED <<main_vars, earlier, host_vars>>

Init == ClientInit /\ HostIdle /\ mainpc = "api" /\ main_exc = None

Next ==
    \/ ApiConnect
    \/ ApiProcessQuery
    \/ ApiCallToolDirectly
    \/ ApiCleanup
    \/ ProviderSend
    \/ ProviderReply
    \/ ToolSend
    \/ ToolReply

Spec == Init /\ [][Next]_vars

\* every provider call and every tool invocation issued completes, and
\* process_query goes on whenever it is not awaiting one
\* with one text and one tool name, which the control flow does not look at
LiveBlocks ==
    {TextBlock("a")} \cup {ToolUseBlock(i, "t1", a) : i \in ToolUseIds, a \in ToolArgs}

LiveAnswers ==
    {c \in SeqsUpTo(LiveBlocks, MaxBlocks - SumLen(responses)) :
        /\ UniqueIds(c)
        /\ Len(provider_log) >= MaxCalls => ToolUsesOf(c) = <<>>}

LiveProviderReply ==
    \/ ProviderRaises
    \/ \E content \in LiveAnswers : ProviderResponds(content)

LiveNext ==
    \/ ApiConnect
    \/ ApiProcessQuery
    \/ ApiCleanup
    \/ ProviderSend
    \/ LiveProviderReply
    \/ ToolSend
    \/ ToolReply

LiveSpec ==
    /\ Init
    /\ [][LiveNext]_vars
    /\ WF_vars(ProviderSend)
    /\ WF_vars(LiveProviderReply)
    /\ WF_vars(ToolSend)
    /\ WF_vars(ToolReply)

(* ------------------------------- chat_loop ----------------------------- *)
RECURSIVE LStrip(_)
LStrip(line) ==
    IF line # <<>> /\ Head(line) = " " THEN LStrip(Tail(line)) ELSE line

RECURSIVE RStrip(_)
RStrip(line) ==
    IF line # <<>> /\ line[Len(line)] = " "
    THEN RStrip(SubSeq(line, 1, Len(line) - 1))
    ELSE line

\* str.strip()
Strip(line) == RStrip(LStrip(line))

LowerChar(c) ==
    CASE c = "E" -> "e" [] c = "X" -> "x" [] c = "I" -> "i" [] c = "T" -> "t"
      [] c = "Q" -> "q" [] c = "U" -> "u" [] OTHER -> c

\* str.lower()
Lower(line) == [i \in 1..Len(line) |-> LowerChar(line[i])]

IsQuit(user_in) == Lower(user_in) \in {<<"q", "u", "i", "t">>, <<"e", "x", "i", "t">>}

(* ---------------------------------- main ------------------------------- *)
\* main before its try block: the usage check and MCPClient()
MainStart ==
    /\ mainpc = "start"
    /\ \E outcome \in {"usage", "no_api_key", "ok"} :
          /\ mainpc' = IF outcome = "ok" THEN "connect" ELSE "exited"
          /\ main_exc' = IF outcome = "no_api_key" THEN "ConfigurationError" ELSE None
    /\ UNCHANGED <<client_vars, env_vars, op_vars, query_vars, log_vars,
                   earlier, host_vars>>

\* await client.connect_to_server(server_path)
MainConnect ==
    /\ mainpc = "connect"
    /\ \E path \in ServerPaths, stage \in ConnectOutcomes, answer \in ListToolsAnswers :
          connect_to_server(path, stage, answer)
    /\ mainpc' = IF pc' = "raised" THEN "finally" ELSE "chat_loop"
    /\ main_exc' = err'
    /\ UNCHANGED <<earlier, host_vars>>

\* chat_loop up to its while loop
ChatLoopEnter ==
    /\ mainpc = "chat_loop"
    /\ IF session = None
       THEN mainpc' = "finally" /\ main_exc' = "NotConnected"
       ELSE mainpc' = "input" /\ main_exc' = None
    /\ UNCHANGED <<client_vars, env_vars, op_vars, query_vars, log_vars,
                   earlier, host_vars>>

\* one line read, and the turn started or the loop left
ChatInput(line) ==
    LET user_in == Strip(line) IN
    /\ mainpc = "input"
    /\ IF IsQuit(user_in)
       THEN /\ mainpc' = "finally"
            /\ UNCHANGED <<client_vars, env_vars, op_vars, query_vars, log_vars,
                           earlier>>
       ELSE /\ mainpc' = "turn"
            /\ process_query(user_in, MainSystemPrompt)
    /\ main_exc' = None
    /\ UNCHANGED host_vars

\* input() raises (end of input, interrupt)
ChatInputFails ==
    /\ mainpc = "input"
    /\ mainpc' = "finally"
    /\ main_exc' = "EOFError"
    /\ UNCHANGED <<client_vars, env_vars, op_vars, query_vars, log_vars,
                   earlier, host_vars>>

ChatRead ==
    \/ \E line \in InputLines : ChatInput(line)
    \/ ChatInputFails

\* variant: no try/except around the turn, an error leaves the loop
ChatPrint_Propagate ==
    /\ mainpc = "turn"
    /\ NoOpRunning
    /\ mainpc' = IF pc = "raised" THEN "finally" ELSE "input"
    /\ main_exc' = IF pc = "raised" THEN err ELSE main_exc
    /\ UNCHANGED <<client_vars, env_vars, op_vars, query_vars, log_vars,
                   earlier, host_vars>>

\* the turn's process_query ended: the answer or the error is printed and
\* the loop goes on
ChatPrint ==
    /\ mainpc = "turn"
    /\ NoOpRunning
    /\ mainpc' = "input"
    /\ UNCHANGED <<client_vars, env_vars, op_vars, query_vars, log_vars, main_exc,
                   earlier, host_vars>>

\* finally: await client.cleanup()
MainCleanup ==
    /\ mainpc = "finally"
    /\ cleanup
    /\ mainpc' = "done"
    /\ UNCHANGED <<main_exc, earlier, host_vars>>

MainInit == ClientInit /\ HostIdle /\ mainpc = "start" /\ main_exc = None

MainNext ==
    \/ MainStart
    \/ MainConnect
    \/ ChatLoopEnter
    \/ ChatRead
    \/ ChatPrint
    \/ MainCleanup
    \/ ProviderSend
    \/ ProviderReply
    \/ ToolSend
    \/ ToolReply

MainSpec == MainInit /\ [][MainNext]_vars

(* ------------------------ tool host: count_characters ------------------ *)
\* the characters of the texts: letters, digits, whitespace and others
Letters == {"a", "b"}
Digits == {"1", "2"}
Whitespace == {" ", "\t"}
Chars == {"a", " ", "\t", "1", "!"}
AllChars == Chars \cup Letters \cup Digits \cup Whitespace

\* the scenario's text, "ab 12!"
ScenarioWord == <<"a", "b", " ", "1", "2", "!">>

Words == SeqsUpTo(Chars, MaxWordLen) \cup {ScenarioWord}

\* c.isalpha(), c.isdigit(), c.isspace()
isalpha(c) == c \in Letters
isdigit(c) == c \in Digits
isspace(c) == c \in Whitespace

\* sum(f(c) for c in word), f given as the set of characters it is true of
RECURSIVE SumOver(_, _)
SumOver(class, w) ==
    IF w = <<>> THEN 0
    ELSE (IF Head(w) \in class THEN 1 ELSE 0) + SumOver(class, Tail(w))

\* variant: every whitespace character is removed
strip_Everywhere(w) == SelectSeq(w, LAMBDA c : ~isspace(c))

\* word.strip()
RECURSIVE strip(_)
strip(w) ==
    IF w = <<>> THEN w
    ELSE IF isspace(Head(w)) THEN strip(Tail(w))
    ELSE IF isspace(w[Len(w)]) THEN strip(SubSeq(w, 1, Len(w) - 1))
    ELSE w

count_characters(w) ==
    LET total_chars == Len(w)
        non_whitespace == Len(strip(w))
        alpha_chars == SumOver({c \in AllChars : isalpha(c)}, w)
        digit_chars == SumOver({c \in AllChars : isdigit(c)}, w)
        special_chars == total_chars - alpha_chars - digit_chars
                           - SumOver({c \in AllChars : isspace(c)}, w)
    IN  [returned |-> TRUE,
         total_characters |-> total_chars,
         non_whitespace_characters |-> non_whitespace,
         alphabetic_characters |-> alpha_chars,
         digit_characters |-> digit_chars,
         special_characters |-> special_chars]

ClientUntouched ==
    UNCHANGED <<client_vars, env_vars, op_vars, query_vars, log_vars, main_vars,
                earlier>>

\* the tool is called, and returns
HostCountCharacters ==
    /\ counts = NoCounts
    /\ counts' = count_characters(word)
    /\ UNCHANGED word
    /\ ClientUntouched

\* the host gets the next call
HostNextCall ==
    /\ counts # NoCounts
    /\ \E w \in Words : word' = w
    /\ counts' = NoCounts
    /\ ClientUntouched

CountInit ==
    /\ ClientInit
    /\ mainpc = "api"
    /\ main_exc = None
    /\ word \in Words
    /\ counts = NoCounts

CountNext == HostCountCharacters \/ HostNextCall

CountSpec == CountInit /\ [][CountNext]_vars

(* ======================================================================= *)
(*                               properties                                *)
(* ======================================================================= *)
IsToolResultFor(m, id) ==
    /\ m.role = "user"
    /\ Len(m.content) = 1
    /\ m.content[1].type = "tool_result"
    /\ m.content[1].tool_use_id = id

\* every request in history h is directly followed by its result
NoDanglingRequest(h) ==
    \A i \in 1..Len(h) :
        h[i].role = "assistant" =>
            /\ Len(h[i].content) = 1
            /\ h[i].content[1].type = "tool_use"
            /\ i < Len(h)
            /\ IsToolResultFor(h[i + 1], h[i].content[1].id)

\* in the part of history h after position from, every request has exactly
\* one result carrying its id
OneResultEach(h, from) ==
    \A i \in (from + 1)..Len(h) :
        h[i].role = "assistant" =>
            Cardinality({j \in (from + 1)..Len(h) :
                            IsToolResultFor(h[j], h[i].content[1].id)}) = 1

\* the tool_use blocks of a response, and of a sequence of responses, in
\* emission order
RequestsOf(content) == SelectBlocks(content, "tool_use")

RECURSIVE AllRequests(_)
AllRequests(rs) ==
    IF rs = <<>> THEN <<>> ELSE RequestsOf(Head(rs)) \o AllRequests(Tail(rs))

\* the text of the text blocks of a sequence of responses, in emission order
RECURSIVE AllTexts(_)
AllTexts(rs) ==
    IF rs = <<>> THEN <<>>
    ELSE LET tb == SelectBlocks(Head(rs), "text")
         IN  [i \in 1..Len(tb) |-> tb[i].text] \o AllTexts(Tail(rs))

\* texts separated by newlines, built from the left
JoinedByNewlines(texts) ==
    LET acc[i \in 0..Len(texts)] ==
            IF i = 0 THEN ""
            ELSE IF i = 1 THEN texts[1]
            ELSE acc[i - 1] \o "\n" \o texts[i]
    IN  acc[Len(texts)]

InQuery == op = "process_query"

\* C1: in every state of process_query, every tool-invocation request in the
\* history, and in every history handed to a provider call, is directly
\* followed by a tool-result message with the request's id, and the entries
\* appended between two provider calls hold exactly one result per request;
\* this also holds when a tool invocation raises.
C1_NoDanglingToolCall ==
    InQuery =>
        /\ NoDanglingRequest(messages)
        /\ \A k \in 1..Len(provider_log) :
              /\ NoDanglingRequest(provider_log[k].messages)
              /\ k > 1 => OneResultEach(provider_log[k].messages,
                                        Len(provider_log[k - 1].messages))

\* a provider call received a history with two requests of one response
C1_Witness ==
    /\ InQuery
    /\ Len(provider_log) = 2
    /\ Len(provider_log[2].messages) = 5

\* C2: whenever process_query is about to call the provider, the tool
\* invocations made so far are those of the tool_use blocks of the responses
\* received, one each and in emission order; and the history of each provider
\* call is 2*N entries longer than that of the previous one, N being the
\* number of tool_use blocks of the response in between.
C2_InvocationsPerResponse ==
    InQuery =>
        /\ pc = "provider" =>
              LET reqs == AllRequests(responses) IN
              /\ transport = [i \in 1..Len(reqs) |->
                                [op |-> "call_tool", name |-> reqs[i].name,
                                 args |-> reqs[i].input]]
              /\ Len(messages) = 1 + 2 * Len(reqs)
        /\ \A k \in 1..Len(provider_log) :
              k > 1 =>
                  Len(provider_log[k].messages) =
                      Len(provider_log[k - 1].messages)
                          + 2 * Len(RequestsOf(responses[k - 1]))

\* the provider is about to be called again after a response with two
\* different requests
C2_Witness ==
    /\ InQuery
    /\ pc = "provider"
    /\ Len(responses) = 1
    /\ Len(RequestsOf(responses[1])) = 2
    /\ RequestsOf(responses[1])[1].name # RequestsOf(responses[1])[2].name

\* C3: when the first response holds no tool_use block, process_query has
\* returned after exactly one provider call and no tool invocation, and its
\* value is that response's texts in order joined by newlines.
C3_NoToolsSingleCall ==
    (InQuery /\ Len(responses) >= 1 /\ RequestsOf(responses[1]) = <<>>) =>
        /\ pc = "returned"
        /\ Len(provider_log) = 1
        /\ Len(responses) = 1
        /\ transport = <<>>
        /\ result = JoinedByNewlines(AllTexts(<<responses[1]>>))

\* a first response of two different texts and no tool_use
C3_Witness ==
    /\ InQuery
    /\ Len(responses) = 1
    /\ Len(responses[1]) = 2
    /\ RequestsOf(responses[1]) = <<>>
    /\ responses[1][1] # responses[1][2]

\* C4: the value process_query returns is the texts of all the responses it
\* received, in emission order, joined by newlines, the texts of responses
\* that ask for tools included.
C4_ReturnsAllTextInOrder ==
    (InQuery /\ pc = "returned") =>
        result = JoinedByNewlines(AllTexts(responses))

\* returned after a response of text, tool_use, text
C4_Witness ==
    /\ InQuery
    /\ pc = "returned"
    /\ Len(responses) = 2
    /\ Len(responses[1]) = 3
    /\ responses[1][1].type = "text"
    /\ responses[1][2].type = "tool_use"
    /\ responses[1][3].type = "text"
    /\ responses[1][1] # responses[1][3]

\* C5 as stated: on return the history ends with the final answer.
C5_HistoryHoldsFinalAnswer ==
    (InQuery /\ pc = "returned") =>
        /\ Len(messages) >= 2
        /\ messages[Len(messages)].role = "assistant"
        /\ messages[Len(messages)].content = <<[type |-> "text", text |-> result]>>

\* C5, amended: when process_query returns, its history is the user message
\* holding the query followed, for every tool_use block of every response in
\* emission order, by the assistant echo of the block and the tool result
\* with its id; every history handed to a provider call is a prefix of it;
\* the final answer is the returned value and is not in the history.
C5_TranscriptWithoutAnswer ==
    (InQuery /\ pc = "returned") =>
        LET reqs == AllRequests(responses) IN
        /\ Len(messages) = 1 + 2 * Len(reqs)
        /\ messages[1] = [role |-> "user", content |-> query]
        /\ \A j \in 1..Len(reqs) :
              /\ messages[2 * j] = [role |-> "assistant", content |-> <<reqs[j]>>]
              /\ IsToolResultFor(messages[2 * j + 1], reqs[j].id)
        /\ \A k \in 1..Len(provider_log) :
              /\ Len(provider_log[k].messages) <= Len(messages)
              /\ provider_log[k].messages =
                    SubSeq(messages, 1, Len(provider_log[k].messages))
        /\ \A i \in 2..Len(messages) :
              messages[i].role = "assistant" => messages[i].content[1].type = "tool_use"

\* returned with a final answer after two tool calls
C5_Witness ==
    /\ InQuery
    /\ pc = "returned"
    /\ Len(messages) = 5
    /\ result # ""

\* C6 as stated: process_query on a connected client sends no tool call over
\* the transport for a name that is not in the registry.
C6_UnknownToolNotSent ==
    (InQuery /\ started_active) =>
        \A i \in 1..Len(transport) :
            \E j \in 1..Len(available_tools) :
                available_tools[j].name = transport[i].name

\* C7 as stated: process_query and call_tool_directly started without an
\* active Session fail with NotConnected, with no provider call and no tool
\* invocation.
C7_NotConnectedWithoutSession ==
    (op \in {"process_query", "call_tool_directly"} /\ ~started_active) =>
        /\ pc = "raised"
        /\ err = "NotConnected"
        /\ provider_log = <<>>
        /\ transport = <<>>

\* C8: once a provider call or a tool invocation of process_query has
\* failed, process_query has ended with that error and no value, no further
\* provider call or tool invocation can follow, the failed call was made
\* once, and the requests after the failed one were not executed.
C8_FailureIsTerminal ==
    (InQuery /\ err \in {"ProviderError", "ToolExecutionFailed"}) =>
        /\ pc = "raised"
        /\ result = None
        /\ ~ENABLED ProviderSend
        /\ ~ENABLED ProviderReply
        /\ ~ENABLED ToolSend
        /\ ~ENABLED ToolReply
        /\ err = "ProviderError" =>
              /\ Len(provider_log) = Len(responses) + 1
              /\ Len(transport) = Len(AllRequests(responses))
        /\ err = "ToolExecutionFailed" =>
              /\ Len(provider_log) = Len(responses)
              /\ Len(transport) = (Len(messages) - 1) \div 2 + 1
              /\ Len(transport) =
                    Len(AllRequests(SubSeq(responses, 1, Len(responses) - 1))) + tu_idx

\* the first of two requests failed
C8_Witness ==
    /\ InQuery
    /\ pc = "raised"
    /\ err = "ToolExecutionFailed"
    /\ Len(tool_uses) = 2
    /\ tu_idx = 1

\* C9: when main has ended after entering its try block, every transport
\* resource is released and the exit stack is empty.
C9_ReleasedWhenMainEnds ==
    mainpc = "done" => (open = {} /\ exit_stack = <<>>)

\* main ended with an error after the session had been created
C9_Witness ==
    /\ mainpc = "done"
    /\ session # None
    /\ main_exc # None

\* C10: call_tool_directly on a connected client sends exactly the one call
\* asked for when the name is that of a registered descriptor, and otherwise
\* fails with UnknownTool and sends nothing.
C10_DirectCallChecksRegistry ==
    (op = "call_tool_directly" /\ started_active) =>
        IF \E j \in 1..Len(available_tools) : available_tools[j].name = direct[1]
        THEN /\ transport = <<[op |-> "call_tool", name |-> direct[1], args |-> direct[2]]>>
             /\ err \in {None, "ToolExecutionFailed"}
        ELSE /\ pc = "raised"
             /\ err = "UnknownTool"
             /\ transport = <<>>

\* an unregistered name given to a client whose registry is not empty
C10_Witness ==
    /\ op = "call_tool_directly"
    /\ started_active
    /\ available_tools # <<>>
    /\ err = "UnknownTool"

\* the last n characters of path, all of it when it is shorter
LastChars(path, n) ==
    IF Len(path) <= n THEN path ELSE SubSeq(path, Len(path) - n + 1, Len(path))

HasSupportedSuffix(path) ==
    \/ LastChars(path, 3) = <<".", "p", "y">>
    \/ LastChars(path, 3) = <<".", "j", "s">>
    \/ LastChars(path, 4) = <<".", "j", "a", "r">>

\* C11: a connect_to_server whose path ends in none of .py, .js, .jar raises
\* UnsupportedTarget, sends nothing over the transport, opens nothing, and
\* leaves the session handle, the exit stack and the registry as they were.
C11_UnsupportedTargetNoTransport ==
    [][(op' = "connect_to_server" /\ ~HasSupportedSuffix(server_path')) =>
          /\ pc' = "raised"
          /\ err' = "UnsupportedTarget"
          /\ transport' = <<>>
          /\ open' = open
          /\ exit_stack' = exit_stack
          /\ session' = session
          /\ available_tools' = available_tools]_vars

\* an unsupported path given to a client that holds a session handle and a
\* registry from an earlier connect
C11_Witness ==
    /\ op = "connect_to_server"
    /\ ~HasSupportedSuffix(server_path)
    /\ err = "UnsupportedTarget"
    /\ session # None
    /\ available_tools # <<>>

\* C12: in the interactive shell every step from a turn whose process_query
\* raised leads back to reading the next line, with the session handle and
\* the transport as they were; and main never leaves the loop with an error
\* of process_query.
C12_FailedTurnKeepsLoop ==
    /\ [](mainpc \in {"finally", "done"} =>
             main_exc \notin {"ProviderError", "ToolExecutionFailed"})
    /\ [][(mainpc = "turn" /\ pc = "raised") =>
             /\ mainpc' = "input"
             /\ main_exc' = None
             /\ session' = session
             /\ open' = open
             /\ exit_stack' = exit_stack]_vars

\* the shell is reading the next line after a turn whose tool call failed,
\* the session still open
C12_Witness ==
    /\ mainpc = "input"
    /\ op = "process_query"
    /\ pc = "raised"
    /\ err = "ToolExecutionFailed"
    /\ session # None
    /\ SessionRes \in open

QueryRunning == InQuery /\ pc \in {"provider", "awaiting_provider", "tools", "awaiting_tool"}

\* C13: process_query has returned only when the last response it received
\* holds no tool_use block and every response before it holds one; after a
\* response with tool_use blocks whose invocations completed it calls the
\* provider again, however many calls it has made; and, every call
\* completing, a running process_query ends once the provider sends a
\* response without tool_use.
C13_ReturnsOnlyWithoutToolUse ==
    /\ []((InQuery /\ pc = "returned") =>
             /\ Len(responses) >= 1
             /\ RequestsOf(responses[Len(responses)]) = <<>>
             /\ \A k \in 1..(Len(responses) - 1) : RequestsOf(responses[k]) # <<>>)
    /\ []((InQuery /\ Len(responses) >= 1 /\ pc \notin {"returned", "raised"}) =>
             RequestsOf(responses[Len(responses)]) # <<>>)
    /\ [][(InQuery /\ pc = "awaiting_tool" /\ pc' \notin {"tools", "raised"}) =>
             /\ pc' = "provider"
             /\ Len(tool_replies') = Len(AllRequests(responses))]_vars
    /\ [][(InQuery /\ pc = "provider") =>
             Len(provider_log') = Len(provider_log) + 1]_vars
    /\ (QueryRunning ~> (pc \in {"returned", "raised"}))

\* returned after a second provider call
C13_Witness ==
    /\ InQuery
    /\ pc = "returned"
    /\ Len(provider_log) = 2
    /\ RequestsOf(responses[1]) # <<>>

\* C15: at most one external call is outstanding. While a tool invocation is
\* outstanding every provider call issued has completed and every earlier
\* tool invocation has completed; while a provider call is outstanding every
\* tool invocation issued has completed; and a call is issued only when none
\* is outstanding.
C15_OneCallAtATime ==
    /\ [](InQuery =>
            /\ Len(outstanding) <= 1
            /\ (pc = "awaiting_tool" =>
                   /\ Len(outstanding) = 1
                   /\ outstanding[1].op = "call_tool"
                   /\ Len(responses) = Len(provider_log)
                   /\ Len(transport) = Len(tool_replies) + 1)
            /\ (pc = "awaiting_provider" =>
                   /\ Len(outstanding) = 1
                   /\ outstanding[1].op = "messages.create"
                   /\ Len(provider_log) = Len(responses) + 1
                   /\ Len(transport) = Len(tool_replies)
                   /\ Len(tool_replies) = Len(AllRequests(responses))))
    /\ [][(InQuery /\ Len(outstanding') > Len(outstanding)) =>
             /\ outstanding = <<>>
             /\ Len(outstanding') = 1]_vars

\* the second invocation of a response is outstanding, the first has completed
C15_Witness ==
    /\ InQuery
    /\ pc = "awaiting_tool"
    /\ Len(RequestsOf(responses[Len(responses)])) = 2
    /\ Len(tool_replies) = 1
    /\ Len(transport) = 2

SameMessage(a, b) == a.role = b.role /\ a.content = b.content

StrictPrefix(g, h) ==
    /\ Len(g) < Len(h)
    /\ \A i \in 1..Len(g) : SameMessage(g[i], h[i])

\* C16: within one process_query the history handed to each provider call
\* has the history handed to the call before it as a strict prefix, and every
\* step leaves the entries already in the history where and as they were.
C16_HistoryAppendOnly ==
    /\ [](InQuery =>
            \A k \in 2..Len(provider_log) :
                StrictPrefix(provider_log[k - 1].messages, provider_log[k].messages))
    /\ [][(InQuery /\ op' = op /\ pc # "returned" /\ pc # "raised") =>
             /\ Len(messages') >= Len(messages)
             /\ \A i \in 1..Len(messages) : SameMessage(messages[i], messages'[i])]_vars

\* a second provider call has been made, with a longer history
C16_Witness ==
    /\ InQuery
    /\ Len(provider_log) = 2
    /\ Len(provider_log[1].messages) = 1
    /\ Len(provider_log[2].messages) = 5

\* C17: the j-th completed tool invocation of process_query left, as the
\* 2j+1-th history entry, a tool-result message whose content is what the
\* invoker returned, or "No result" when it returned nothing; and on either
\* return the two messages are appended and the loop goes on.
C17_ResultOrFallback ==
    /\ []((InQuery /\ messages # <<>>) =>
            /\ Len(messages) = 1 + 2 * Len(tool_replies)
            /\ \A j \in 1..Len(tool_replies) :
                  LET m == messages[2 * j + 1] IN
                  /\ m.role = "user"
                  /\ Len(m.content) = 1
                  /\ m.content[1].type = "tool_result"
                  /\ m.content[1].content =
                        IF tool_replies[j] = None THEN "No result" ELSE tool_replies[j])
    /\ [][(InQuery /\ pc = "awaiting_tool" /\ pc' # "raised") =>
             /\ Len(tool_replies') = Len(tool_replies) + 1
             /\ Len(messages') = Len(messages) + 2
             /\ pc' \in {"tools", "provider"}]_vars

\* one invocation returned nothing, the next returned content, and the loop
\* went on to the provider
C17_Witness ==
    /\ InQuery
    /\ Len(tool_replies) = 2
    /\ tool_replies[1] = None
    /\ tool_replies[2] # None
    /\ messages[3].content[1].content = "No result"
    /\ Len(provider_log) = 2

\* the requests of the first n responses
RequestsBefore(n) == AllRequests(SubSeq(responses, 1, n))

\* C19: the history handed to every provider call starts with the user
\* message holding the query, alternates user and assistant roles, ends with
\* a user message, has as its 2i-th entry an assistant message wrapping
\* exactly the i-th request (and nothing else) and as its 2i+1-th entry that
\* request's result, and is 1 + 2k long, k the number of tool invocations
\* completed when the call is made.
C19_HistoryShape ==
    InQuery =>
        \A c \in 1..Len(provider_log) :
            LET h == provider_log[c].messages
                reqs == RequestsBefore(c - 1)
            IN
            /\ Len(h) = 1 + 2 * Len(reqs)
            /\ h[1].role = "user"
            /\ h[1].content = query
            /\ h[Len(h)].role = "user"
            /\ \A i \in 1..Len(reqs) :
                  /\ h[2 * i].role = "assistant"
                  /\ Len(h[2 * i].content) = 1
                  /\ h[2 * i].content[1] = reqs[i]
                  /\ IsToolResultFor(h[2 * i + 1], reqs[i].id)

\* a response with text and two requests became two assistant messages
C19_Witness ==
    /\ InQuery
    /\ Len(provider_log) = 2
    /\ Len(responses[1]) = 3
    /\ Len(RequestsOf(responses[1])) = 2
    /\ Len(provider_log[2].messages) = 5

\* what is offered for the names the last successful tool listing returned
OfferedFor(names) ==
    [i \in 1..Len(names) |->
        [name |-> names[i],
         description |-> "desc:" \o names[i],
         input_schema |-> "schema:" \o names[i]]]

\* C18: no step of process_query or call_tool_directly changes the registry
\* or the session handle, and every provider call of a process_query is
\* offered the descriptors the last successful connect's tool listing
\* returned, in the listing's order.
C18_RegistryFixedAfterConnect ==
    /\ [](InQuery => \A c \in 1..Len(provider_log) :
                        provider_log[c].tools = OfferedFor(listing))
    /\ [][(op' \in {"process_query", "call_tool_directly"}) =>
             /\ session' = session
             /\ available_tools' = available_tools
             /\ listing' = listing]_vars

\* a second provider call of a query is offered the two descriptors fetched
C18_Witness ==
    /\ InQuery
    /\ listing = <<"t2", "t1">>
    /\ Len(available_tools) = 2
    /\ Len(provider_log) = 2
    /\ provider_log[2].tools[1].name = "t2"
    /\ provider_log[2].tools[2].name = "t1"

\* C20: the step that starts a process_query leaves a history of exactly the
\* user message holding the query given, and that is the history its first
\* provider call gets, whatever the process_query calls before it did.
C20_FreshHistoryPerQuery ==
    /\ [](InQuery => \A c \in 1..Len(provider_log) :
                        c = 1 => /\ Len(provider_log[c].messages) = 1
                                 /\ provider_log[c].messages[1].role = "user"
                                 /\ provider_log[c].messages[1].content = query)
    /\ [][(NoOpRunning /\ op' = "process_query" /\ pc' = "provider") =>
             /\ Len(messages') = 1
             /\ messages'[1].role = "user"
             /\ messages'[1].content = query']_vars

\* the first provider call of a turn that follows turns with tool calls and
\* a failed turn has been made
C20_Witness ==
    /\ mainpc = "turn"
    /\ InQuery
    /\ earlier
    /\ query = <<"Q", "2">>
    /\ Len(provider_log) >= 1
    /\ Len(provider_log[1].messages) = 1

\* positions of word holding a character that is not whitespace
InkAt(w) == {i \in 1..Len(w) : w[i] \notin {" ", "\t"}}

\* length of w without its leading and trailing whitespace
TrimmedLen(w) ==
    IF InkAt(w) = {} THEN 0
    ELSE LET first == CHOOSE i \in InkAt(w) : \A j \in InkAt(w) : i <= j
             last == CHOOSE i \in InkAt(w) : \A j \in InkAt(w) : j <= i
         IN  last - first + 1

HowMany(w, class) == Cardinality({i \in 1..Len(w) : w[i] \in class})

C14_WitnessTrim ==
    /\ counts.returned
    /\ word = <<" ", "a", "\t">>
    /\ counts.non_whitespace_characters = 1

====
